---- MODULE Spec2Model ----
(***************************************************************************)
(* Model of the batched voxel-wise estimators of BLMM (lib/est3d.py: FS3D, *)
(* pFS3D, SFS3D, pSFS3D) and of their caller blmm_estimate.main.           *)
(*                                                                         *)
(* Numbers.  Log-likelihoods and tolerances are integers in units of 1e-6, *)
(* so that the literal 1e-6 of blmm_estimate.py is 1 and the sentinels     *)
(* -10 and 10 of est3d.py are -10000000 and 10000000.  The step size lam   *)
(* is an integer in units of 2^-MaxIter, so that every halving the bounded *)
(* run can do is exact.                                                    *)
(*                                                                         *)
(* Inputs.  The design has p fixed effects with X'X = I and X'Z = 0, so    *)
(* the fixed-effect estimate of a voxel is that voxel's X'Y in every       *)
(* variant; voxel i of the input batch has X'Y = (i,...,i), which makes    *)
(* the beta part of a parameter vector name the voxel it was computed      *)
(* from.  What the data decide in one iteration (the new log-likelihood,   *)
(* the new sigma2, the candidate D_k before the projection) is drawn from  *)
(* small sets.  A candidate D_k is a multiple c * BaseD(k) of a fixed      *)
(* symmetric positive definite matrix; one scale c in DScales is drawn per *)
(* voxel and iteration, for all its factors.  Voxel i has its own number   *)
(* of observations and its own design cross-products (with Z'Z = i * I),   *)
(* and e'e = 12 * i at the least-squares beta.  The cache D(I+Z'ZD)^-1 of  *)
(* a voxel is kept as the pair (D, Z'Z) it was computed from.              *)
(***************************************************************************)
EXTENDS Integers, Sequences, FiniteSets, TLC

\* ------------------------------------------------------------------------
\* Bounds
\* ------------------------------------------------------------------------
NVox == 2
MaxIter == 2

\* the symmetric matrices the vectorization kernels are tried on: up to
\* MaxDim rows, entries in -MaxEntry..MaxEntry
MaxDim == 2
MaxEntry == 1

\* the values the information kernels return are built from numbers in
\* 0..MaxCov
MaxCov == 1

\* the processes that call addLineToCSV on one file name at the same time
NJobs == 3

\* the voxels of the volume that blmm_concat and blmm_results partition
NVol == 3

\* ------------------------------------------------------------------------
\* Program constants and the design
\* ------------------------------------------------------------------------
p == 1

\* the designs of the runs: two random factors (one parameter and two
\* levels, two parameters and one level), and no random factor at all
Designs ==
  {[nlevels |-> <<2, 1>>, nparams |-> <<1, 2>>],
   [nlevels |-> <<>>, nparams |-> <<>>]}

DefaultTol == 1
LiteralTol == 1
LlhPrevInit == -10000000
LlhCurrInit == 10000000

Methods == {"FS", "pFS", "SFS", "pSFS"}
TolVals == {1, 2, 20000000}
LlhVals == (LlhCurrInit - 2)..LlhCurrInit
DScales == {-1, 1}
Sigma2Vals == {1}

\* the rows by which the Y'Z handed to an estimator may exceed the batch
YtZExtra == {0, 1}

RECURSIVE Pow2(_)
Pow2(e) == IF e = 0 THEN 1 ELSE 2 * Pow2(e - 1)
LamOne == Pow2(MaxIter)

\* ------------------------------------------------------------------------
\* State
\* ------------------------------------------------------------------------
VARIABLES
  pc,               \* position: main, setup, loop, converge, returned, done,
                    \* error, indexerror; roundtrip, roundtripped;
                    \* fisher, assembled, inverted; tile, tiled; csv;
                    \* concat, masked, split, groups, resultsdone
  entry,            \* "main": called through blmm_estimate.main; "direct"
  inputs,           \* the inputs dictionary of blmm_estimate.main
  method,           \* the estimator running
  tol,              \* the tol argument the estimator received
  nlevels,          \* levels of every random factor
  nparams,          \* parameters of every random factor
  n,                \* number of observations, per voxel
  XtX,              \* X'X, per voxel
  ZtX,              \* Z'X, per voxel
  ZtZ,              \* Z'Z, per voxel
  XtZ,              \* X'Z, per voxel
  XtY,              \* X'Y of the active voxels
  YtX,              \* Y'X of the active voxels
  YtY,              \* Y'Y of the active voxels
  ZtY,              \* Z'Y of the active voxels
  YtZ,              \* Y'Z of the active voxels
  ete,              \* e'e of the active voxels
  DinvIplusZtZD,    \* the cache D(I+Z'ZD)^-1 of the active voxels
  cacheHad,         \* SFS3D, pSFS3D: cacheHad[k] is how many of this
                    \* iteration's factor updates the cache held when
                    \* factor k was updated
  beta,             \* per active voxel
  sigma2,           \* per active voxel
  Ddict,            \* Ddict[k][j]: D_k of active voxel j
  D,                \* per active voxel, q x q
  lam,              \* per active voxel, in units of 2^-MaxIter
  llhprev,          \* per active voxel
  llhcurr,          \* per active voxel
  paramVector,      \* FS3D, pFS3D: the updated parameter vectors
  converged_global, \* per input voxel, 0 or 1
  savedparams,      \* per input voxel, the archived parameter vector
  nit,              \* number of iterations
  result,           \* what blmm_estimate.main returns
  FisherInfoMat,    \* FS3D, pFS3D: the information matrix of one voxel
  covdldB,          \* what get_covdldbeta3D returned for that voxel
  covdldsigma2,     \* n/(2*sigma2**2) of that voxel
  covdldsigmadD,    \* what get_covdldDkdsigma23D returned, per factor
  covdldDk1dDk2,    \* what get_covdldDk1Dk23D returned, per pair k2 <= k1
  lockExists,       \* addLineToCSV: whether fname.lock exists
  csvExists,        \* whether fname exists
  csvRows,          \* the rows of fname
  apc,              \* per process: lock, isfile, read, write, remove, close,
                    \* done, raised
  fileLocked,       \* per process: its local fileLocked
  data,             \* per process: its local data
  Missingness,      \* blmm_concat, blmm_results: inputs['Missingness']
  n_sv,             \* the number of observations at every voxel
  Mask,             \* the mask of the analysed voxels (blmm_vox_mask.nii)
  bamInds,          \* the voxels of the block that is looked at
  R_inds,           \* the ring: analysed voxels with observations missing
  I_inds,           \* the inner volume: analysed voxels with all of them
  voxelGroups,      \* blmm_results: the groups the block is computed in
  cv,               \* blmm_results: the groups that have been computed
  estimated         \* how often every voxel has been handed to an estimator


\* ------------------------------------------------------------------------
\* Generic helpers
\* ------------------------------------------------------------------------
Abs(x) == IF x < 0 THEN -x ELSE x

RECURSIVE SumTo(_, _)
SumTo(f, k) == IF k = 0 THEN 0 ELSE f[k] + SumTo(f, k - 1)

RECURSIVE Concat(_)
Concat(ss) == IF ss = <<>> THEN <<>> ELSE Head(ss) \o Concat(Tail(ss))

RECURSIVE Where(_, _)
Where(b, m) ==
  IF m = 0 THEN <<>>
  ELSE IF b[m] THEN Append(Where(b, m - 1), m) ELSE Where(b, m - 1)

\* numpy fancy indexing a[idx]
Index(a, idx) == [t \in 1..Len(idx) |-> a[idx[t]]]

\* the slice of voxel j in an array that numpy broadcasts over the voxels
\* when its leading dimension is 1
At(a, j) == IF Len(a) = 1 THEN a[1] ELSE a[j]

ZeroRow(w) == [a \in 1..w |-> 0]
ZeroMat(m) == [a \in 1..m |-> [b \in 1..m |-> 0]]
Identity(m) == [a \in 1..m |-> [b \in 1..m |-> IF a = b THEN 1 ELSE 0]]
Dot(u, w) == SumTo([a \in 1..Len(u) |-> u[a] * w[a]], Len(u))
Scale(c, M) == [a \in 1..Len(M) |-> [b \in 1..Len(M) |-> c * M[a][b]]]

\* ------------------------------------------------------------------------
\* Useful scalars (FS3D lines 89-95)
\* ------------------------------------------------------------------------
r == Len(nlevels)
q == SumTo([k \in 1..r |-> nparams[k] * nlevels[k]], r)

\* lengths of vech(D_k) and of vec(D_k)
VechLen(k) == (nparams[k] * (nparams[k] + 1)) \div 2
VecLen(k) == nparams[k] * nparams[k]

\* total number of parameters: vec = FALSE in FS3D, SFS3D, pSFS3D;
\* vec = TRUE in pFS3D
tnp(vec) ==
  p + 1 + SumTo([k \in 1..r |-> IF vec THEN VecLen(k) ELSE VechLen(k)], r)

\* offsets (0-based, as in the source) of the D_k slices of a parameter
\* vector; FishIndsDk(vec)[k] is the source's FishIndsDk[k-1]
FishIndsDk(vec) ==
  [k \in 1..(r + 1) |->
     p + 1 + SumTo([j \in 1..r |-> IF vec THEN VecLen(j) ELSE VechLen(j)],
                   k - 1)]

\* the slice v[a:b] of numpy (0-based, b excluded)
Slice(v, a, b) == SubSeq(v, a + 1, b)

\* ------------------------------------------------------------------------
\* Matrix kernels (lib/npMatrix3d.py), applied to one voxel's matrix
\* ------------------------------------------------------------------------
mat2vec3D(M) == Concat(M)

mat2vech3D(M) == Concat([a \in 1..Len(M) |-> SubSeq(M[a], a, Len(M))])

vec2mat3D(v) ==
  LET d == CHOOSE m \in 0..Len(v) : m * m = Len(v)
  IN  [a \in 1..d |-> SubSeq(v, (a - 1) * d + 1, a * d)]

vech2mat3D(v) ==
  LET d == CHOOSE m \in 0..Len(v) : m * (m + 1) = 2 * Len(v)
      off(a) == (a - 1) * d - ((a - 1) * (a - 2)) \div 2
      at(a, b) == v[off(a) + (b - a + 1)]
  IN  [a \in 1..d |-> [b \in 1..d |-> IF a <= b THEN at(a, b) ELSE at(b, a)]]

IsSym(M) == \A a, b \in 1..Len(M) : M[a][b] = M[b][a]

\* determinant by expansion along the first row
RECURSIVE Det(_)
Det(M) ==
  IF Len(M) = 0 THEN 1
  ELSE LET d == Len(M)
           Minor(c) == [a \in 1..(d - 1) |->
                          [b \in 1..(d - 1) |->
                             M[a + 1][IF b < c THEN b ELSE b + 1]]]
           Sign(c) == IF c % 2 = 1 THEN 1 ELSE -1
           term[c \in 0..d] ==
             IF c = 0 THEN 0
             ELSE term[c - 1] + Sign(c) * M[1][c] * Det(Minor(c))
       IN  term[d]

\* the principal submatrix of M on the increasing index sequence idx
Principal(M, idx) ==
  [a \in 1..Len(idx) |-> [b \in 1..Len(idx) |-> M[idx[a]][idx[b]]]]

\* a symmetric matrix has no negative eigenvalue iff all its principal
\* minors are non-negative
IsPSD(M) ==
  /\ IsSym(M)
  /\ \A S \in SUBSET (1..Len(M)) :
        Det(Principal(M, Where([i \in 1..Len(M) |-> i \in S], Len(M)))) >= 0

IsDiag(M) == \A a, b \in 1..Len(M) : a # b => M[a][b] = 0

\* eigenvalue flooring.  Exact on the three classes the model's candidates
\* fall in: no negative eigenvalue (unchanged), no positive eigenvalue
\* (all eigenvalues floored to 0) and diagonal (the diagonal is floored).
makeDnnd3D(M) ==
  IF IsPSD(M) THEN M
  ELSE IF IsPSD(Scale(-1, M)) THEN ZeroMat(Len(M))
  ELSE IF IsDiag(M)
       THEN [a \in 1..Len(M) |->
               [b \in 1..Len(M) |->
                  IF a = b /\ M[a][a] > 0 THEN M[a][a] ELSE 0]]
  ELSE M

\* block-diagonal D of one voxel: Dd[k] repeated nlevels[k] times
RECURSIVE BlockDiag(_)
BlockDiag(blocks) ==
  IF blocks = <<>> THEN <<>>
  ELSE LET B == Head(blocks)
           R == BlockDiag(Tail(blocks))
           d == Len(B)
           m == Len(R)
       IN  [a \in 1..(d + m) |->
              [b \in 1..(d + m) |->
                 IF a <= d /\ b <= d THEN B[a][b]
                 ELSE IF a > d /\ b > d THEN R[a - d][b - d]
                 ELSE 0]]

getDfromDict3D(Dd) ==
  BlockDiag(Concat([k \in 1..r |-> [j \in 1..nlevels[k] |-> Dd[k]]]))

\* ------------------------------------------------------------------------
\* Inputs
\* ------------------------------------------------------------------------
\* X'Y of the input batch: voxel i has X'Y = (i, ..., i)
InputXtY == [i \in 1..NVox |-> [a \in 1..p |-> i]]

\* the other cross-products of voxel i: Y'X and Y'Z are the transposes of
\* X'Y and Z'Y, and Y'Y is such that e'e = 12 * i at beta = X'Y
InputYtX == InputXtY
InputYtY == [i \in 1..NVox |-> p * i * i + 12 * i]
InputZtY == [i \in 1..NVox |-> [a \in 1..q |-> i]]
InputYtZ == InputZtY

\* the voxel-varying design: X'X = I, X'Z = 0 and Z'Z = i * I
InputXtX == [i \in 1..NVox |-> Identity(p)]
InputZtX == [i \in 1..NVox |-> [a \in 1..q |-> ZeroRow(p)]]
InputZtZ == [i \in 1..NVox |-> Scale(i, Identity(q))]
InputXtZ == [i \in 1..NVox |-> [a \in 1..p |-> ZeroRow(q)]]

\* the number of observations differs between voxels: NVox + 1, NVox, ...
InputN == [i \in 1..NVox |-> NVox + 2 - i]

\* beta = (X'X)^-1 X'Y with X'X = I
initBeta3D(xty) == xty

\* e'e = Y'Y - 2 Y'X beta + beta' X'X beta
ssr3D(ytx, yty, xtx, b) ==
  yty - 2 * Dot(ytx, b) + Dot(b, [a \in 1..Len(xtx) |-> Dot(xtx[a], b)])

\* sigma2 = e'e / n
initSigma23D(e, nj) == e \div nj

\* sigma2 = 1/n * (e'e - Zte' D(I+Z'ZD)^-1 Zte), the bracket being s * e'e
Sigma2Update(s, e, nj) == (s * e) \div nj

\* forceSym3D(D @ np.linalg.inv(np.eye(q) + ZtZ @ D)) of one voxel
DinvIplusZtZDOf(Dm, Z) == [D |-> Dm, ZtZ |-> Z]

\* the fixed symmetric positive definite matrix the candidates of factor k
\* are multiples of: ones off the diagonal, 2, 3, ... on it
BaseD(k) ==
  [a \in 1..nparams[k] |-> [b \in 1..nparams[k] |-> IF a = b THEN a + 1 ELSE 1]]

\* candidate D_k of every active voxel, from the scale drawn for it
RawD(c, k) == Scale(c, BaseD(k))

\* the assembly of the information matrix
fisherVars == <<FisherInfoMat, covdldB, covdldsigma2, covdldsigmadD,
                covdldDk1dDk2>>

lockVars == <<lockExists, csvExists, csvRows, apc, fileLocked, data>>

\* what the estimators and blmm_estimate.main do not touch
partVars == <<Missingness, n_sv, Mask, bamInds, R_inds, I_inds, voxelGroups,
              cv, estimated>>

otherVars == <<fisherVars, lockVars, partVars>>

vars == <<pc, entry, inputs, method, tol, nlevels, nparams, n, XtX, ZtX, ZtZ,
          XtZ, XtY, YtX, YtY, ZtY, YtZ, ete, DinvIplusZtZD, cacheHad, beta,
          sigma2, Ddict, D, lam, llhprev, llhcurr, paramVector,
          converged_global, savedparams, nit, result, otherVars>>

\* the arguments of the estimator that an iteration only reads
inArrays == <<n, XtX, ZtX, ZtZ, XtZ, YtX, YtY, ZtY, YtZ>>

estVars == <<n, XtX, ZtX, ZtZ, XtZ, XtY, YtX, YtY, ZtY, YtZ, ete,
             DinvIplusZtZD, cacheHad, beta, sigma2, Ddict, D, lam, llhprev,
             llhcurr, paramVector, converged_global, savedparams, nit>>

NoInputs == [method |-> "none", hasTol |-> FALSE, tol |-> 0]

\* no information matrix is being assembled
FisherIdle ==
  /\ FisherInfoMat = <<>>
  /\ covdldB = <<>>
  /\ covdldsigma2 = 0
  /\ covdldsigmadD = <<>>
  /\ covdldDk1dDk2 = <<>>

\* no process is in addLineToCSV
LockIdle ==
  /\ lockExists = FALSE
  /\ csvExists = FALSE
  /\ csvRows = <<>>
  /\ apc = <<>>
  /\ fileLocked = <<>>
  /\ data = <<>>

\* no volume is being partitioned
PartIdle ==
  /\ Missingness = <<>>
  /\ n_sv = <<>>
  /\ Mask = <<>>
  /\ bamInds = {}
  /\ R_inds = <<>>
  /\ I_inds = <<>>
  /\ voxelGroups = <<>>
  /\ cv = 0
  /\ estimated = <<>>

OthersIdle == FisherIdle /\ LockIdle /\ PartIdle

\* no estimator is running
EstimatorIdle ==
  /\ entry = "direct"
  /\ inputs = NoInputs
  /\ method = "none"
  /\ tol = 0
  /\ nlevels = <<>>
  /\ nparams = <<>>
  /\ n = <<>>
  /\ XtX = <<>>
  /\ ZtX = <<>>
  /\ ZtZ = <<>>
  /\ XtZ = <<>>
  /\ XtY = <<>>
  /\ YtX = <<>>
  /\ YtY = <<>>
  /\ ZtY = <<>>
  /\ YtZ = <<>>
  /\ ete = <<>>
  /\ DinvIplusZtZD = <<>>
  /\ cacheHad = <<>>
  /\ beta = <<>>
  /\ sigma2 = <<>>
  /\ Ddict = <<>>
  /\ D = <<>>
  /\ lam = <<>>
  /\ llhprev = <<>>
  /\ llhcurr = <<>>
  /\ paramVector = <<>>
  /\ converged_global = <<>>
  /\ savedparams = <<>>
  /\ nit = 0
  /\ result = <<>>

Init ==
  /\ entry \in {"main", "direct"}
  /\ IF entry = "main"
     THEN /\ inputs \in [method : Methods, hasTol : BOOLEAN, tol : {0, 2}]
          /\ inputs.hasTol <=> inputs.tol = 2
          /\ pc = "main"
          /\ method = "none"
          /\ tol = 0
     ELSE /\ inputs = NoInputs
          /\ pc = "setup"
          /\ method \in Methods
          /\ tol \in TolVals
  /\ \E d \in Designs :
       /\ nlevels = d.nlevels
       /\ nparams = d.nparams
  /\ n = <<>>
  /\ XtX = <<>>
  /\ ZtX = <<>>
  /\ ZtZ = <<>>
  /\ XtZ = <<>>
  /\ XtY = <<>>
  /\ YtX = <<>>
  /\ YtY = <<>>
  /\ ZtY = <<>>
  /\ YtZ = <<>>
  /\ ete = <<>>
  /\ DinvIplusZtZD = <<>>
  /\ cacheHad = <<>>
  /\ beta = <<>>
  /\ sigma2 = <<>>
  /\ Ddict = <<>>
  /\ D = <<>>
  /\ lam = <<>>
  /\ llhprev = <<>>
  /\ llhcurr = <<>>
  /\ paramVector = <<>>
  /\ converged_global = <<>>
  /\ savedparams = <<>>
  /\ nit = 0
  /\ result = <<>>
  /\ OthersIdle


\* ------------------------------------------------------------------------
\* blmm_estimate.main: tolerance, method and the estimator call
\* ------------------------------------------------------------------------
\* the four calls pass reml=REML; only pSFS3D has a reml parameter
AcceptsReml(m) == m = "pSFS"

main ==
  /\ pc = "main"
  /\ LET m == inputs.method
     IN  /\ method' = m
         /\ IF AcceptsReml(m)
            THEN /\ tol' = LiteralTol
                 /\ pc' = "setup"
            ELSE /\ tol' = tol
                 /\ pc' = "error"
  /\ UNCHANGED otherVars
  /\ UNCHANGED <<entry, inputs, nlevels, nparams, result>>
  /\ UNCHANGED estVars

\* ------------------------------------------------------------------------
\* Initial estimates, index variables, step size, likelihoods, buffers
\* ------------------------------------------------------------------------
\* SFS3D, pSFS3D: Dinds[len(Dinds)-1]=Dinds[len(Dinds)-2]+nparams[-1] reads
\* the last entry of nparams, which an empty nparams does not have
DindsFails(m) == m \in {"SFS", "pSFS"} /\ r = 0

Setup ==
  /\ pc = "setup"
  /\ IF DindsFails(method)
     THEN /\ pc' = "indexerror"
          /\ UNCHANGED estVars
     ELSE /\ n' = InputN
          /\ XtX' = InputXtX
          /\ ZtX' = InputZtX
          /\ ZtZ' = InputZtZ
          /\ XtZ' = InputXtZ
          /\ XtY' = InputXtY
          /\ YtX' = InputYtX
          /\ YtY' = InputYtY
          /\ ZtY' = InputZtY
          /\ \E extra \in YtZExtra :
               YtZ' = InputYtZ \o [i \in 1..extra |-> InputYtZ[NVox]]
          /\ beta' = [j \in 1..NVox |-> initBeta3D(InputXtY[j])]
          /\ ete' = [j \in 1..NVox |->
                       ssr3D(InputYtX[j], InputYtY[j], InputXtX[j], beta'[j])]
          /\ sigma2' = [j \in 1..NVox |-> initSigma23D(ete'[j], InputN[j])]
          /\ \E c \in [1..NVox -> DScales] :
               /\ Ddict' = [k \in 1..r |->
                              [j \in 1..NVox |-> makeDnnd3D(RawD(c[j], k))]]
               /\ D' = [j \in 1..NVox |->
                          getDfromDict3D([k \in 1..r |-> Ddict'[k][j]])]
          /\ DinvIplusZtZD' =
               [j \in 1..NVox |-> DinvIplusZtZDOf(D'[j], InputZtZ[j])]
          /\ cacheHad' = <<>>
          /\ lam' = [j \in 1..NVox |-> LamOne]
          /\ llhprev' = [j \in 1..NVox |-> LlhPrevInit]
          /\ llhcurr' = [j \in 1..NVox |-> LlhCurrInit]
          /\ converged_global' = [i \in 1..NVox |-> 0]
          /\ savedparams' = [i \in 1..NVox |-> ZeroRow(tnp(method = "pFS"))]
          /\ nit' = 0
          /\ paramVector' = <<>>
          /\ pc' = "loop"
  /\ UNCHANGED otherVars
  /\ UNCHANGED <<entry, inputs, method, tol, nlevels, nparams, result>>

\* the loop condition with a difference equal to tol counted as not converged
LoopCondInclusive ==
  \E j \in 1..Len(llhprev) : Abs(llhprev[j] - llhcurr[j]) >= tol

\* while np.any(np.abs(llhprev-llhcurr)>tol)
LoopCond == \E j \in 1..Len(llhprev) : Abs(llhprev[j] - llhcurr[j]) > tol

\* the step size halved for every voxel as soon as one likelihood dropped
HalveStepAny(l, prev, curr) ==
  [j \in 1..Len(l) |->
     IF \E i \in 1..Len(l) : prev[i] > curr[i] THEN l[j] \div 2 ELSE l[j]]

\* the step size set back to 1 where the likelihood did not drop
HalveStepReset(l, prev, curr) ==
  [j \in 1..Len(l) |-> IF prev[j] > curr[j] THEN l[j] \div 2 ELSE LamOne]

\* lam[llhprev>llhcurr] = lam[llhprev>llhcurr]/2
HalveStep(l, prev, curr) ==
  [j \in 1..Len(l) |-> IF prev[j] > curr[j] THEN l[j] \div 2 ELSE l[j]]

\* the part of an iteration every variant shares: the iteration count, the
\* previous likelihood, the new likelihood and the step size
Likelihood(newllh) ==
  /\ nit' = nit + 1
  /\ llhprev' = llhcurr
  /\ llhcurr' = newllh
  /\ lam' = HalveStep(lam, llhprev', llhcurr')

\* the updated parameters put back to the previous ones where the
\* likelihood dropped
KeptUnlessDrop(old, new, prev, curr) ==
  [j \in 1..Len(new) |-> IF prev[j] > curr[j] THEN old[j] ELSE new[j]]

\* the parameters an iteration leaves to the archive and to the next
\* iteration: the updated ones; where the likelihood dropped, only lam is
\* changed
Kept(old, new, prev, curr) == new

\* the routine a variant applies to its information matrix (FS3D, pFS3D) or
\* to the information block of a factor (SFS3D, pSFS3D): np.linalg.inv in
\* all four
InfoInverse(m) ==
  CASE m = "FS" -> "inv"
    [] m = "pFS" -> "inv"
    [] m = "SFS" -> "inv"
    [] m = "pSFS" -> "inv"

\* ------------------------------------------------------------------------
\* FS3D and pFS3D: joint update of the parameter vector
\* ------------------------------------------------------------------------
\* the updated parameter vector of one voxel, [beta, sigma2, v(D_1), ...]
\* with v = vech (vec = FALSE) or vec (vec = TRUE)
UpdatedVector(b, s, c, vec) ==
  b \o <<s>> \o
  Concat([k \in 1..r |-> IF vec THEN mat2vec3D(RawD(c, k))
                                ELSE mat2vech3D(RawD(c, k))])

\* what the data decide in the joint update paramVector + lam *
\* inv(F) @ derivVector of one voxel whose step size is l: the scale c of
\* the candidate D_k and sigma2 as a multiple s of e'e/n.  With no random
\* factor the step leads to e'e/n itself.  With random factors either part
\* can land below zero, and the source floors neither in paramVector: for
\* one factor of one parameter and two levels with Z'Z = diag(1, 3), n = 4
\* and the residual e = (0, t, t, t), the step of size 1 gives sigma2 < 0
\* and D_1 > 0 from every D >= 0.  A damped step (l below 1) is taken to
\* keep sigma2 above zero.
FSOutcomes(l) ==
  IF r = 0 THEN {[c |-> 1, s |-> 1]}
  ELSE {[c |-> 1, s |-> 1], [c |-> -1, s |-> 1]} \cup
       (IF l = LamOne THEN {[c |-> 1, s |-> -1]} ELSE {})

\* the outcomes of the voxels of a batch, one per step size in ls
RECURSIVE FSOutcomeSeqs(_)
FSOutcomeSeqs(ls) ==
  IF ls = <<>> THEN {<<>>}
  ELSE {<<h>> \o t : h \in FSOutcomes(Head(ls)), t \in FSOutcomeSeqs(Tail(ls))}

FSUpdate(vec) ==
  /\ pc = "loop"
  /\ LoopCond
  /\ nit < MaxIter
  /\ LET v_iter == Len(XtY)
         F == FishIndsDk(vec)
         \* the updated parameter vectors and the parameters read from them
         Updated(o) ==
           LET pv == [j \in 1..v_iter |->
                        UpdatedVector(beta[j],
                                      Sigma2Update(o[j].s, ete[j], At(n, j)),
                                      o[j].c, vec)]
               Dd == [k \in 1..r |->
                        [j \in 1..v_iter |->
                           LET sl == Slice(pv[j], F[k], F[k + 1])
                           IN  makeDnnd3D(IF vec THEN vec2mat3D(sl)
                                                 ELSE vech2mat3D(sl))]]
           IN  [paramVector |-> pv,
                beta |-> [j \in 1..v_iter |-> Slice(pv[j], 0, p)],
                sigma2 |-> [j \in 1..v_iter |-> pv[j][p + 1]],
                Ddict |-> Dd,
                D |-> [j \in 1..v_iter |->
                         getDfromDict3D([k \in 1..r |-> Dd[k][j]])]]
     IN  \E o \in FSOutcomeSeqs(lam) :
         \E u \in {Updated(o)} :
         \E newllh \in [1..v_iter -> LlhVals] :
           /\ Likelihood(newllh)
           /\ paramVector' = u.paramVector
           /\ beta' = Kept(beta, u.beta, llhcurr, newllh)
           /\ sigma2' = Kept(sigma2, u.sigma2, llhcurr, newllh)
           /\ Ddict' = [k \in 1..r |->
                          Kept(Ddict[k], u.Ddict[k], llhcurr, newllh)]
           /\ D' = Kept(D, u.D, llhcurr, newllh)
           /\ ete' = [j \in 1..v_iter |->
                        ssr3D(YtX[j], YtY[j], At(XtX, j), beta'[j])]
           /\ DinvIplusZtZD' =
                [j \in 1..v_iter |-> DinvIplusZtZDOf(D'[j], At(ZtZ, j))]
  /\ pc' = "converge"
  /\ UNCHANGED otherVars
  /\ UNCHANGED <<entry, inputs, method, tol, nlevels, nparams, result, XtY,
                 converged_global, savedparams, cacheHad>>
  /\ UNCHANGED inArrays

FS3D_Update == method = "FS" /\ FSUpdate(FALSE)

pFS3D_Update == method = "pFS" /\ FSUpdate(TRUE)

\* ------------------------------------------------------------------------
\* SFS3D and pSFS3D: closed-form beta and sigma2, D_k one factor at a time
\* ------------------------------------------------------------------------
\* offsets that give every block the width of the first factor
DindsFirstWidth ==
  [c \in 1..(SumTo(nlevels, r) + 1) |-> (c - 1) * nparams[1]]

\* offsets (0-based) of the blocks of D, one per level of every factor
Dinds ==
  LET cum == [k \in 1..r |->
                SumTo([j \in 1..r |-> nlevels[j] * nparams[j]], k - 1)]
      firsts == Concat([k \in 1..r |->
                  [j \in 1..nlevels[k] |-> cum[k] + nparams[k] * (j - 1)]])
  IN  Append(firsts, firsts[Len(firsts)] + nparams[r])

\* the factor the counter-th block of D belongs to
FactorOf(counter) ==
  CHOOSE k \in 1..r :
    SumTo(nlevels, k - 1) < counter /\ counter <= SumTo(nlevels, k)

\* D[a:b, a:b] = B
SetBlock(Dm, a, b, B) ==
  [x \in 1..Len(Dm) |->
     [y \in 1..Len(Dm) |->
        IF x > a /\ x <= b /\ y > a /\ y <= b THEN B[x - a][y - a]
        ELSE Dm[x][y]]]

\* the blocks 1..counter of one voxel's D overwritten by its new D_k
RECURSIVE AddBlocks(_, _, _)
AddBlocks(Dm, Dd, counter) ==
  IF counter = 0 THEN Dm
  ELSE SetBlock(AddBlocks(Dm, Dd, counter - 1), Dinds[counter],
                Dinds[counter + 1], Dd[FactorOf(counter)])

\* un-half-vectorizing that fills the upper triangle only
RoundTripUpper(M, vec) ==
  [a \in 1..Len(M) |-> [b \in 1..Len(M) |-> IF a <= b THEN M[a][b] ELSE 0]]

\* vectorizing and un-vectorizing a D_k: by vec in pSFS3D, by vech in SFS3D
RoundTrip(M, vec) ==
  IF vec THEN vec2mat3D(mat2vec3D(M)) ELSE vech2mat3D(mat2vech3D(M))

\* SFS3D recomputes D(I+Z'ZD)^-1 inside the loop over the factors, pSFS3D
\* after it
RecomputesInLoop(vec) == ~vec

\* the loop over the factors k, k+1, ..., r: for each, how many of this
\* iteration's factor updates the cache held when the factor was updated
RECURSIVE CacheTrace(_, _, _)
CacheTrace(k, had, vec) ==
  IF k > r THEN <<>>
  ELSE <<had>> \o CacheTrace(k + 1, IF RecomputesInLoop(vec) THEN k ELSE had,
                             vec)

SFSUpdate(vec) ==
  /\ pc = "loop"
  /\ LoopCond
  /\ nit < MaxIter
  /\ LET v_iter == Len(XtY)
         \* the closed-form beta and sigma2, and the D_k updated one factor
         \* at a time and written into the blocks of D
         Updated(c, s) ==
           LET nb == [j \in 1..v_iter |-> initBeta3D(XtY[j])]
               ne == [j \in 1..v_iter |->
                        ssr3D(YtX[j], YtY[j], At(XtX, j), nb[j])]
               Dd == [k \in 1..r |->
                        [j \in 1..v_iter |->
                           makeDnnd3D(RoundTrip(RawD(c[j], k), vec))]]
           IN  [beta |-> nb,
                ete |-> ne,
                sigma2 |-> [j \in 1..v_iter |->
                              Sigma2Update(s[j], ne[j], At(n, j))],
                Ddict |-> Dd,
                D |-> [j \in 1..v_iter |->
                         AddBlocks(D[j], [k \in 1..r |-> Dd[k][j]],
                                   SumTo(nlevels, r))]]
     IN  \E c \in [1..v_iter -> DScales], s \in [1..v_iter -> Sigma2Vals] :
         \E u \in {Updated(c, s)} :
         \E newllh \in [1..v_iter -> LlhVals] :
           /\ Likelihood(newllh)
           /\ beta' = Kept(beta, u.beta, llhcurr, newllh)
           /\ ete' = u.ete
           /\ sigma2' = Kept(sigma2, u.sigma2, llhcurr, newllh)
           /\ Ddict' = [k \in 1..r |->
                          Kept(Ddict[k], u.Ddict[k], llhcurr, newllh)]
           /\ D' = Kept(D, u.D, llhcurr, newllh)
           /\ cacheHad' = CacheTrace(1, 0, vec)
           /\ DinvIplusZtZD' =
                [j \in 1..v_iter |-> DinvIplusZtZDOf(D'[j], At(ZtZ, j))]
  /\ pc' = "converge"
  /\ UNCHANGED otherVars
  /\ UNCHANGED <<entry, inputs, method, tol, nlevels, nparams, result, XtY,
                 converged_global, savedparams, paramVector>>
  /\ UNCHANGED inArrays

SFS3D_Update == method = "SFS" /\ SFSUpdate(FALSE)

pSFS3D_Update == method = "pSFS" /\ SFSUpdate(TRUE)


\* ------------------------------------------------------------------------
\* Convergence, archival and compaction
\* ------------------------------------------------------------------------
\* lib/npMatrix3d.py: from the record of the voxels converged before the
\* iteration and the mask of the active voxels that converged during it,
\* the input indices of the voxels converging now and the positions, in the
\* active arrays, of the converged and of the remaining voxels
getConvergedIndices(convergedBeforeIt, convergedDuringIt) ==
  LET v == Len(convergedBeforeIt)
      indices_notConBeforeIt ==
        Where([i \in 1..v |-> convergedBeforeIt[i] = 0], v)
      lc == Where(convergedDuringIt, Len(convergedDuringIt))
      lnc == Where([j \in 1..Len(convergedDuringIt) |->
                      ~convergedDuringIt[j]], Len(convergedDuringIt))
  IN  [indices_ConDuringIt |-> Index(indices_notConBeforeIt, lc),
       indices_notConAfterIt |-> Index(indices_notConBeforeIt, lnc),
       localconverged |-> lc,
       localnotconverged |-> lnc]

\* np.abs(llhprev-llhcurr)<tol
ConvergedMask ==
  [j \in 1..Len(llhprev) |-> Abs(llhprev[j] - llhcurr[j]) < tol]

\* the record overwritten by this iteration's converged voxels
MarkConvergedOverwrite(cg, inds) ==
  [i \in 1..Len(cg) |-> IF \E t \in 1..Len(inds) : inds[t] = i THEN 1 ELSE 0]

\* converged_global[indices_ConDuringIt] = 1
MarkConverged(cg, inds) ==
  [i \in 1..Len(cg) |-> IF \E t \in 1..Len(inds) : inds[t] = i THEN 1 ELSE cg[i]]

\* row[a:b] = vals
SetSlice(row, a, b, vals) ==
  [x \in 1..Len(row) |-> IF x > a /\ x <= b THEN vals[x - a] ELSE row[x]]

\* the rows written at the positions in the active arrays
SaveParamsLocal(sp, inds, lc, a, b, vals) ==
  [i \in 1..Len(sp) |->
     IF \E t \in 1..Len(lc) : lc[t] = i
     THEN SetSlice(sp[i], a, b, vals[i])
     ELSE sp[i]]

\* savedparams[indices_ConDuringIt, a:b, :] = vals[localconverged]
SaveParams(sp, inds, lc, a, b, vals) ==
  [i \in 1..Len(sp) |->
     IF \E t \in 1..Len(inds) : inds[t] = i
     THEN LET t == CHOOSE u \in 1..Len(inds) : inds[u] = i
          IN  SetSlice(sp[i], a, b, vals[lc[t]])
     ELSE sp[i]]

\* the remaining voxels appended instead of selected
CompactAppend(a, lnc) == a \o Index(a, lnc)

\* a = a[localnotconverged]
Compact(a, lnc) == Index(a, lnc)

\* n left as it is
CompactNNever(nn, lnc) == nn

\* if n.shape[0] > 1: n = n[localnotconverged]
CompactN(nn, lnc) == IF Len(nn) > 1 THEN Compact(nn, lnc) ELSE nn

\* the working arrays reduced to the voxels that did not converge
Compaction(lnc) ==
  /\ XtY' = Compact(XtY, lnc)
  /\ YtX' = Compact(YtX, lnc)
  /\ YtY' = Compact(YtY, lnc)
  /\ ZtY' = Compact(ZtY, lnc)
  /\ YtZ' = Compact(YtZ, lnc)
  /\ ete' = Compact(ete, lnc)
  /\ DinvIplusZtZD' = Compact(DinvIplusZtZD, lnc)
  /\ IF Len(XtX) > 1
     THEN /\ XtX' = Compact(XtX, lnc)
          /\ ZtX' = Compact(ZtX, lnc)
          /\ ZtZ' = Compact(ZtZ, lnc)
          /\ XtZ' = Compact(XtZ, lnc)
     ELSE UNCHANGED <<XtX, ZtX, ZtZ, XtZ>>
  /\ n' = CompactN(n, lnc)
  /\ lam' = Compact(lam, lnc)
  /\ llhprev' = Compact(llhprev, lnc)
  /\ llhcurr' = Compact(llhcurr, lnc)
  /\ beta' = Compact(beta, lnc)
  /\ sigma2' = Compact(sigma2, lnc)
  /\ D' = Compact(D, lnc)
  /\ Ddict' = [k \in 1..r |-> Compact(Ddict[k], lnc)]

\* FS3D, pFS3D: the updated parameter vector is archived as it is
FSConverge(vec) ==
  /\ pc = "converge"
  /\ LET ci == getConvergedIndices(converged_global, ConvergedMask)
     IN  /\ converged_global' =
               MarkConverged(converged_global, ci.indices_ConDuringIt)
         /\ savedparams' =
               SaveParams(savedparams, ci.indices_ConDuringIt,
                          ci.localconverged, 0, tnp(vec), paramVector)
         /\ Compaction(ci.localnotconverged)
  /\ pc' = "loop"
  /\ UNCHANGED otherVars
  /\ UNCHANGED <<entry, inputs, method, tol, nlevels, nparams, result,
                 paramVector, nit, cacheHad>>

FS3D_Converge == method = "FS" /\ FSConverge(FALSE)

pFS3D_Converge == method = "pFS" /\ FSConverge(TRUE)

\* the slices of savedparams written for factors 1..k
RECURSIVE SaveDk(_, _, _)
SaveDk(sp, ci, k) ==
  IF k = 0 THEN sp
  ELSE SaveParams(SaveDk(sp, ci, k - 1), ci.indices_ConDuringIt,
                  ci.localconverged, FishIndsDk(FALSE)[k],
                  FishIndsDk(FALSE)[k + 1],
                  [j \in 1..Len(XtY) |-> mat2vech3D(Ddict[k][j])])

\* SFS3D, pSFS3D: beta, sigma2 and vech(D_k) are archived slice by slice
SFSConverge ==
  /\ pc = "converge"
  /\ LET ci == getConvergedIndices(converged_global, ConvergedMask)
         sp1 == SaveParams(savedparams, ci.indices_ConDuringIt,
                           ci.localconverged, 0, p, beta)
         sp2 == SaveParams(sp1, ci.indices_ConDuringIt, ci.localconverged,
                           p, p + 1, [j \in 1..Len(XtY) |-> <<sigma2[j]>>])
     IN  /\ converged_global' =
               MarkConverged(converged_global, ci.indices_ConDuringIt)
         /\ savedparams' = SaveDk(sp2, ci, r)
         /\ Compaction(ci.localnotconverged)
  /\ pc' = "loop"
  /\ UNCHANGED otherVars
  /\ UNCHANGED <<entry, inputs, method, tol, nlevels, nparams, result,
                 paramVector, nit, cacheHad>>

SFS3D_Converge == method = "SFS" /\ SFSConverge

pSFS3D_Converge == method = "pSFS" /\ SFSConverge

\* return(savedparams)
Return ==
  /\ pc = "loop"
  /\ ~LoopCond
  /\ pc' = "returned"
  /\ UNCHANGED otherVars
  /\ UNCHANGED <<entry, inputs, method, tol, nlevels, nparams, result>>
  /\ UNCHANGED estVars

\* ------------------------------------------------------------------------
\* blmm_estimate.main: reading beta, sigma2 and D back from paramVec
\* ------------------------------------------------------------------------
IndsDk == [k \in 1..(r + 1) |-> p + 1 + SumTo([j \in 1..r |-> VechLen(j)], k - 1)]

main_output ==
  /\ pc = "returned"
  /\ entry = "main"
  /\ result' =
       [beta |-> [i \in 1..NVox |-> Slice(savedparams[i], 0, p)],
        sigma2 |-> [i \in 1..NVox |-> Slice(savedparams[i], p, p + 1)],
        D |-> [i \in 1..NVox |->
                 getDfromDict3D(
                   [k \in 1..r |->
                      vech2mat3D(Slice(savedparams[i], IndsDk[k],
                                       IndsDk[k + 1]))])]]
  /\ pc' = "done"
  /\ UNCHANGED otherVars
  /\ UNCHANGED <<entry, inputs, method, tol, nlevels, nparams>>
  /\ UNCHANGED estVars

Next ==
  \/ main
  \/ Setup
  \/ FS3D_Update
  \/ FS3D_Converge
  \/ pFS3D_Update
  \/ pFS3D_Converge
  \/ SFS3D_Update
  \/ SFS3D_Converge
  \/ pSFS3D_Update
  \/ pSFS3D_Converge
  \/ Return
  \/ main_output

Spec == Init /\ [][Next]_vars

\* the end of an iteration: archival and compaction, in the running variant
Converge ==
  \/ FS3D_Converge
  \/ pFS3D_Converge
  \/ SFS3D_Converge
  \/ pSFS3D_Converge

\* the interpreter goes on executing the program: an iteration that has
\* updated the parameters goes on to archive and compact, and a loop whose
\* condition is false is left
FairSpec == Init /\ [][Next]_vars /\ WF_vars(Converge) /\ WF_vars(Return)

\* ------------------------------------------------------------------------
\* The vectorization kernels on their own: one D_k of one voxel is
\* vectorized and un-vectorized as the update of D_k does
\* ------------------------------------------------------------------------
\* the symmetric d x d matrices, from a value for every pair a <= b
SymMats(d) ==
  LET Pairs == {ab \in (1..d) \X (1..d) : ab[1] <= ab[2]}
  IN  {[a \in 1..d |->
          [b \in 1..d |-> IF a <= b THEN f[<<a, b>>] ELSE f[<<b, a>>]]] :
         f \in [Pairs -> (-MaxEntry)..MaxEntry]}

RoundTripInit ==
  /\ pc = "roundtrip"
  /\ entry = "direct"
  /\ inputs = NoInputs
  /\ method \in {"SFS", "pSFS"}
  /\ tol = 0
  /\ \E d \in 1..MaxDim :
       /\ nlevels = <<1>>
       /\ nparams = <<d>>
       /\ \E M \in SymMats(d) :
            /\ D = <<M>>
            /\ Ddict = <<<<M>>>>
  /\ n = <<>>
  /\ XtX = <<>>
  /\ ZtX = <<>>
  /\ ZtZ = <<>>
  /\ XtZ = <<>>
  /\ XtY = <<>>
  /\ YtX = <<>>
  /\ YtY = <<>>
  /\ ZtY = <<>>
  /\ YtZ = <<>>
  /\ ete = <<>>
  /\ DinvIplusZtZD = <<>>
  /\ cacheHad = <<>>
  /\ beta = <<>>
  /\ sigma2 = <<>>
  /\ lam = <<>>
  /\ llhprev = <<>>
  /\ llhcurr = <<>>
  /\ paramVector = <<>>
  /\ converged_global = <<>>
  /\ savedparams = <<>>
  /\ nit = 0
  /\ result = <<>>
  /\ OthersIdle

\* Ddict[k] = vech2mat3D(mat2vech3D(Ddict[k])) in SFS3D,
\* Ddict[k] = vec2mat3D(mat2vec3D(Ddict[k])) in pSFS3D, with no update added
RoundTripStep ==
  /\ pc = "roundtrip"
  /\ Ddict' = <<<<RoundTrip(Ddict[1][1], method = "pSFS")>>>>
  /\ pc' = "roundtripped"
  /\ UNCHANGED otherVars
  /\ UNCHANGED <<entry, inputs, method, tol, nlevels, nparams, result, D>>
  /\ UNCHANGED <<XtY, ete, DinvIplusZtZD, cacheHad, beta, sigma2, lam, llhprev,
                 llhcurr, paramVector, converged_global, savedparams, nit>>
  /\ UNCHANGED inArrays

RoundTripSpec == RoundTripInit /\ [][RoundTripStep]_vars

\* ------------------------------------------------------------------------
\* FS3D and pFS3D: the assembly of the information matrix of one voxel
\* from what the kernels return, up to its inversion
\* ------------------------------------------------------------------------
Transpose(M) ==
  IF M = <<>> THEN <<>>
  ELSE [b \in 1..Len(M[1]) |-> [a \in 1..Len(M) |-> M[a][b]]]

\* M[np.ix_(rows, cols)]
SubMat(M, rows, cols) ==
  [x \in 1..Len(rows) |-> [y \in 1..Len(cols) |-> M[rows[x]][cols[y]]]]

\* M[np.ix_(rows, cols)] = B
SetSubMat(M, rows, cols, B) ==
  [a \in 1..Len(M) |->
     [b \in 1..Len(M) |->
        IF (\E x \in 1..Len(rows) : rows[x] = a) /\
           (\E y \in 1..Len(cols) : cols[y] = b)
        THEN B[CHOOSE x \in 1..Len(rows) : rows[x] = a]
              [CHOOSE y \in 1..Len(cols) : cols[y] = b]
        ELSE M[a][b]]]

\* lib/npMatrix3d.py: (M + M')/2
forceSym3D(M) ==
  [a \in 1..Len(M) |-> [b \in 1..Len(M) |-> (M[a][b] + M[b][a]) \div 2]]

\* np.arange(FishIndsDk[k], FishIndsDk[k+1]), as positions counted from 1
IndsDkOf(k, vec) ==
  [t \in 1..(FishIndsDk(vec)[k + 1] - FishIndsDk(vec)[k]) |->
     FishIndsDk(vec)[k] + t]

\* the pairs (k1, k2) in the order of the two loops: k2 <= k1
RECURSIVE PairsUpTo(_)
PairsUpTo(k1) ==
  IF k1 = 0 THEN <<>>
  ELSE PairsUpTo(k1 - 1) \o [k2 \in 1..k1 |-> <<k1, k2>>]

\* a block returned by a kernel, rows x cols, built from the number val.
\* The block of a factor with itself is symmetric up to the rounding of
\* the products it was computed from: eps is added above its diagonal.
KernelBlock(rows, cols, val, diag, eps) ==
  [a \in 1..rows |->
     [b \in 1..cols |->
        IF diag THEN val + a + b + (IF a < b THEN eps ELSE 0)
        ELSE val + 2 * a + b]]

\* the rows (sigma2, D_k) assigned and mirrored, for the factors 1..k
RECURSIVE AddSigmaDk(_, _, _)
AddSigmaDk(M, k, vec) ==
  IF k = 0 THEN M
  ELSE LET M0 == AddSigmaDk(M, k - 1, vec)
           M1 == SetSubMat(M0, <<p + 1>>, IndsDkOf(k, vec),
                           <<covdldsigmadD[k]>>)
       IN  SetSubMat(M1, IndsDkOf(k, vec), <<p + 1>>,
                     Transpose(SubMat(M1, <<p + 1>>, IndsDkOf(k, vec))))

\* the blocks (D_k1, D_k2) assigned and mirrored, for the first m pairs
RECURSIVE AddDk1Dk2(_, _, _)
AddDk1Dk2(M, m, vec) ==
  IF m = 0 THEN M
  ELSE LET M0 == AddDk1Dk2(M, m - 1, vec)
           k1 == PairsUpTo(r)[m][1]
           k2 == PairsUpTo(r)[m][2]
           IndsDk1 == IndsDkOf(k1, vec)
           IndsDk2 == IndsDkOf(k2, vec)
           M1 == SetSubMat(M0, IndsDk1, IndsDk2, covdldDk1dDk2[m])
       IN  SetSubMat(M1, IndsDk2, IndsDk1,
                     Transpose(SubMat(M1, IndsDk1, IndsDk2)))

\* FisherInfoMat as the assignments of an iteration leave it
AssembledFisher(vec) ==
  LET Z == ZeroMat(tnp(vec))
      M1 == SetSubMat(Z, <<p + 1>>, <<p + 1>>, <<<<covdldsigma2>>>>)
      M2 == SetSubMat(M1, [a \in 1..p |-> a], [a \in 1..p |-> a], covdldB)
      M3 == AddSigmaDk(M2, r, vec)
  IN  AddDk1Dk2(M3, Len(PairsUpTo(r)), vec)

\* FS3D has FisherInfoMat = forceSym3D(FisherInfoMat) before the update
\* step; pFS3D has no such statement and applies forceSym3D to the inverse
SymmetrizesFisher(m) == m = "FS"

FisherInit ==
  /\ pc = "fisher"
  /\ entry = "direct"
  /\ inputs = NoInputs
  /\ method \in {"FS", "pFS"}
  /\ tol = 0
  /\ nlevels = <<2, 1>>
  /\ nparams = <<1, 2>>
  /\ FisherInfoMat = <<>>
  /\ \E x, s, y, z \in 0..MaxCov, eps \in {0, 1} :
       LET vec == method = "pFS"
           len(k) == IF vec THEN VecLen(k) ELSE VechLen(k)
       IN  /\ covdldB = [a \in 1..p |-> [b \in 1..p |-> x + a + b]]
           /\ covdldsigma2 = s
           /\ covdldsigmadD =
                [k \in 1..r |-> [b \in 1..len(k) |-> y + k + b]]
           /\ covdldDk1dDk2 =
                [m \in 1..Len(PairsUpTo(r)) |->
                   LET k1 == PairsUpTo(r)[m][1]
                       k2 == PairsUpTo(r)[m][2]
                   IN  KernelBlock(len(k1), len(k2), z + k1, k1 = k2, eps)]
  /\ n = <<>>
  /\ XtX = <<>>
  /\ ZtX = <<>>
  /\ ZtZ = <<>>
  /\ XtZ = <<>>
  /\ XtY = <<>>
  /\ YtX = <<>>
  /\ YtY = <<>>
  /\ ZtY = <<>>
  /\ YtZ = <<>>
  /\ ete = <<>>
  /\ DinvIplusZtZD = <<>>
  /\ cacheHad = <<>>
  /\ beta = <<>>
  /\ sigma2 = <<>>
  /\ Ddict = <<>>
  /\ D = <<>>
  /\ lam = <<>>
  /\ llhprev = <<>>
  /\ llhcurr = <<>>
  /\ paramVector = <<>>
  /\ converged_global = <<>>
  /\ savedparams = <<>>
  /\ nit = 0
  /\ result = <<>>
  /\ LockIdle
  /\ PartIdle

\* the assignments to FisherInfoMat, from np.zeros to the last mirrored
\* block
FisherAssemble ==
  /\ pc = "fisher"
  /\ FisherInfoMat' = AssembledFisher(method = "pFS")
  /\ pc' = "assembled"
  /\ UNCHANGED <<covdldB, covdldsigma2, covdldsigmadD, covdldDk1dDk2>>
  /\ UNCHANGED <<lockVars, partVars>>
  /\ UNCHANGED <<entry, inputs, method, tol, nlevels, nparams, result>>
  /\ UNCHANGED estVars

\* the matrix handed to np.linalg.inv in the update step
FisherInvert ==
  /\ pc = "assembled"
  /\ FisherInfoMat' = IF SymmetrizesFisher(method)
                      THEN forceSym3D(FisherInfoMat)
                      ELSE FisherInfoMat
  /\ pc' = "inverted"
  /\ UNCHANGED <<covdldB, covdldsigma2, covdldsigmadD, covdldDk1dDk2>>
  /\ UNCHANGED <<lockVars, partVars>>
  /\ UNCHANGED <<entry, inputs, method, tol, nlevels, nparams, result>>
  /\ UNCHANGED estVars

FisherNext == FisherAssemble \/ FisherInvert

FisherSpec == FisherInit /\ [][FisherNext]_vars

\* ------------------------------------------------------------------------
\* SFS3D and pSFS3D: the D_k of one voxel written into the blocks of its D,
\* for designs of up to two factors with up to MaxDim parameters and
\* levels each
\* ------------------------------------------------------------------------
\* the scale of the D_k that D was built from before the update
OldScale == 3

DindsInit ==
  /\ pc = "tile"
  /\ entry = "direct"
  /\ inputs = NoInputs
  /\ method \in {"SFS", "pSFS"}
  /\ tol = 0
  /\ \E rr \in 1..2 :
       /\ nlevels \in [1..rr -> 1..MaxDim]
       /\ nparams \in [1..rr -> 1..MaxDim]
       /\ \E c \in [1..rr -> DScales] :
            Ddict = [k \in 1..rr |-> <<RawD(c[k], k)>>]
  /\ D = <<getDfromDict3D([k \in 1..r |-> RawD(OldScale, k)])>>
  /\ n = <<>>
  /\ XtX = <<>>
  /\ ZtX = <<>>
  /\ ZtZ = <<>>
  /\ XtZ = <<>>
  /\ XtY = <<>>
  /\ YtX = <<>>
  /\ YtY = <<>>
  /\ ZtY = <<>>
  /\ YtZ = <<>>
  /\ ete = <<>>
  /\ DinvIplusZtZD = <<>>
  /\ cacheHad = <<>>
  /\ beta = <<>>
  /\ sigma2 = <<>>
  /\ lam = <<>>
  /\ llhprev = <<>>
  /\ llhcurr = <<>>
  /\ paramVector = <<>>
  /\ converged_global = <<>>
  /\ savedparams = <<>>
  /\ nit = 0
  /\ result = <<>>
  /\ OthersIdle

\* D[:, Dinds[counter]:Dinds[counter+1], Dinds[counter]:Dinds[counter+1]]
\* = Ddict[k] for every level of every factor
DindsStep ==
  /\ pc = "tile"
  /\ D' = <<AddBlocks(D[1], [k \in 1..r |-> Ddict[k][1]], SumTo(nlevels, r))>>
  /\ pc' = "tiled"
  /\ UNCHANGED otherVars
  /\ UNCHANGED <<entry, inputs, method, tol, nlevels, nparams, result, Ddict>>
  /\ UNCHANGED <<XtY, ete, DinvIplusZtZD, cacheHad, beta, sigma2, lam, llhprev,
                 llhcurr, paramVector, converged_global, savedparams, nit>>
  /\ UNCHANGED inArrays

DindsSpec == DindsInit /\ [][DindsStep]_vars

\* ------------------------------------------------------------------------
\* cleanup.addLineToCSV: NJobs processes, process i appending the row i to
\* the same file, which holds the row 0 when it exists at the start
\* ------------------------------------------------------------------------
Jobs == 1..NJobs

\* the lock file created whether or not it exists (O_CREAT without O_EXCL)
CanCreateAlways(exists) == TRUE

\* os.open(fname + ".lock", os.O_CREAT|os.O_EXCL|os.O_RDWR) succeeds when
\* the lock file does not exist and raises FileExistsError when it does
CanCreate(exists) == ~exists

\* the lock file removed on the way out of an exception
LockAfterRaiseRemoved(exists) == FALSE

\* an exception leaves addLineToCSV without passing os.remove
LockAfterRaise(exists) == exists

LockInit ==
  /\ pc = "csv"
  /\ EstimatorIdle
  /\ FisherIdle
  /\ PartIdle
  /\ lockExists = FALSE
  /\ csvExists \in BOOLEAN
  /\ csvRows = IF csvExists THEN <<0>> ELSE <<>>
  /\ apc = [i \in Jobs |-> "lock"]
  /\ fileLocked = [i \in Jobs |-> TRUE]
  /\ data = [i \in Jobs |-> <<>>]

\* one turn of while fileLocked: the lock file is created, or the
\* FileExistsError is caught and the loop goes round
TryLock(i) ==
  /\ apc[i] = "lock"
  /\ IF CanCreate(lockExists)
     THEN /\ lockExists' = TRUE
          /\ fileLocked' = [fileLocked EXCEPT ![i] = FALSE]
          /\ apc' = [apc EXCEPT ![i] = "isfile"]
     ELSE UNCHANGED <<lockExists, fileLocked, apc>>
  /\ UNCHANGED <<csvExists, csvRows, data>>

\* if os.path.isfile(fname): ... else: data = line
IsFile(i) ==
  /\ apc[i] = "isfile"
  /\ IF csvExists
     THEN /\ apc' = [apc EXCEPT ![i] = "read"]
          /\ data' = data
     ELSE /\ apc' = [apc EXCEPT ![i] = "write"]
          /\ data' = [data EXCEPT ![i] = <<i>>]
  /\ UNCHANGED <<lockExists, csvExists, csvRows, fileLocked>>

\* data = pd.io.parsers.read_csv(fname, header=None).values;
\* data = np.concatenate((data, line), axis=0); the read may raise, and
\* does when the file is gone or empty
ReadCsv(i) ==
  /\ apc[i] = "read"
  /\ \E ok \in BOOLEAN :
       IF ok /\ csvExists /\ csvRows # <<>>
       THEN /\ data' = [data EXCEPT ![i] = csvRows \o <<i>>]
            /\ apc' = [apc EXCEPT ![i] = "write"]
            /\ lockExists' = lockExists
       ELSE /\ data' = data
            /\ apc' = [apc EXCEPT ![i] = "raised"]
            /\ lockExists' = LockAfterRaise(lockExists)
  /\ UNCHANGED <<csvExists, csvRows, fileLocked>>

\* pd.DataFrame(data).to_csv(fname, header=None, index=None); a write
\* that raises leaves the file as it was or cut to nothing
WriteCsv(i) ==
  /\ apc[i] = "write"
  /\ \E ok \in BOOLEAN :
       IF ok
       THEN /\ csvExists' = TRUE
            /\ csvRows' = data[i]
            /\ apc' = [apc EXCEPT ![i] = "remove"]
            /\ lockExists' = lockExists
       ELSE /\ \E cut \in BOOLEAN :
                 IF cut
                 THEN csvExists' = TRUE /\ csvRows' = <<>>
                 ELSE UNCHANGED <<csvExists, csvRows>>
            /\ apc' = [apc EXCEPT ![i] = "raised"]
            /\ lockExists' = LockAfterRaise(lockExists)
  /\ UNCHANGED <<fileLocked, data>>

\* os.remove(fname + ".lock"), which raises when the file is not there
RemoveLock(i) ==
  /\ apc[i] = "remove"
  /\ IF lockExists
     THEN /\ lockExists' = FALSE
          /\ apc' = [apc EXCEPT ![i] = "close"]
     ELSE /\ lockExists' = lockExists
          /\ apc' = [apc EXCEPT ![i] = "raised"]
  /\ UNCHANGED <<csvExists, csvRows, fileLocked, data>>

\* os.close(f) and the return
CloseLock(i) ==
  /\ apc[i] = "close"
  /\ apc' = [apc EXCEPT ![i] = "done"]
  /\ UNCHANGED <<lockExists, csvExists, csvRows, fileLocked, data>>

LockStep(i) ==
  \/ TryLock(i)
  \/ IsFile(i)
  \/ ReadCsv(i)
  \/ WriteCsv(i)
  \/ RemoveLock(i)
  \/ CloseLock(i)

LockNext ==
  /\ \E i \in Jobs : LockStep(i)
  /\ UNCHANGED <<fisherVars, partVars>>
  /\ UNCHANGED <<pc, entry, inputs, method, tol, nlevels, nparams, result>>
  /\ UNCHANGED estVars

LockSpec == LockInit /\ [][LockNext]_vars

\* ------------------------------------------------------------------------
\* blmm_concat.main and blmm_results.main: the mask of the analysed voxels
\* and its split into the ring and the inner volume. Voxels are numbered
\* from 0; the entry of voxel i of n_sv, Mask and estimated is at i + 1.
\* ------------------------------------------------------------------------
\* n = X.shape[0], the observations of the whole design
Nobs == 4

Voxels == 0..(NVol - 1)

\* the observations a voxel may have: one too few to be analysed, all but
\* one, and all
NsvVals == {p + 1, Nobs - 1, Nobs}

\* the thresholds of inputs['Missingness']; -1 stands for an absent key,
\* MinPercent is in percent
MinPercentVals == {-1, 100}
MinNVals == {-1, Nobs}

\* the groups blmm_results may split a block into
MaxGroups == 2

\* np.sort(np.where(...)[0]) for the voxels of a set
SortedInds(S) == SelectSeq([i \in 1..NVol |-> i - 1], LAMBDA x : x \in S)

\* Mask[~np.in1d(np.arange(v).reshape(v,1), inds)]=0
KeepOnly(M, inds) == [i \in 1..NVol |-> IF (i - 1) \in inds THEN M[i] ELSE 0]

\* Mask after the thresholds of Missingness and Mask[n_sv<=p+1]=0
ThresholdMask ==
  [i \in 1..NVol |->
     IF \/ (Missingness.MinPercent # -1
             /\ 100 * n_sv[i] < Missingness.MinPercent * Nobs)
        \/ (Missingness.MinN # -1 /\ n_sv[i] < Missingness.MinN)
        \/ n_sv[i] <= p + 1
     THEN 0 ELSE 1]

\* the ring taken to hold the voxels with all observations as well
InRingOrFull(nsv) == nsv <= Nobs

\* n_sv<n
InRing(nsv) == nsv < Nobs

\* n_sv==n
InInner(nsv) == nsv = Nobs

\* np.sort(np.where((Mask==1)*(n_sv<n))[0])
RingOf(M) == SortedInds({i \in Voxels : M[i + 1] = 1 /\ InRing(n_sv[i + 1])})

\* np.sort(np.where((Mask==1)*(n_sv==n))[0])
InnerOf(M) == SortedInds({i \in Voxels : M[i + 1] = 1 /\ InInner(n_sv[i + 1])})

\* np.array_split(a, parts): the first Len(a) % parts groups hold one
\* element more than the others
ArraySplit(a, parts) ==
  LET small == Len(a) \div parts
      big == Len(a) % parts
      start(g) == (g - 1) * small + (IF g - 1 < big THEN g - 1 ELSE big)
  IN  [g \in 1..parts |-> SubSeq(a, start(g) + 1, start(g + 1))]

Range(a) == {a[i] : i \in 1..Len(a)}

PartInit ==
  /\ pc = "concat"
  /\ EstimatorIdle
  /\ FisherIdle
  /\ LockIdle
  /\ Missingness \in [MinPercent : MinPercentVals, MinN : MinNVals]
  /\ n_sv \in [1..NVol -> NsvVals]
  /\ Mask = [i \in 1..NVol |-> 1]
  /\ bamInds = {}
  /\ R_inds = <<>>
  /\ I_inds = <<>>
  /\ voxelGroups = <<>>
  /\ cv = 0
  /\ estimated = [i \in 1..NVol |-> 0]

\* blmm_concat.main: the thresholds, the block of the analysis mask
\* (get_amInds returns some of the voxels) and the mask that is saved
ConcatMask ==
  /\ pc = "concat"
  /\ \E b \in SUBSET Voxels :
       /\ bamInds' = b
       /\ Mask' = KeepOnly(ThresholdMask, b)
  /\ pc' = "masked"
  /\ UNCHANGED <<Missingness, n_sv, R_inds, I_inds, voxelGroups, cv, estimated>>

\* blmm_concat.main: R_inds and I_inds
ConcatSplit ==
  /\ pc = "masked"
  /\ R_inds' = RingOf(Mask)
  /\ I_inds' = InnerOf(Mask)
  /\ pc' = "split"
  /\ UNCHANGED <<Missingness, n_sv, Mask, bamInds, voxelGroups, cv, estimated>>

\* blmm_results.main: the mask read back, the block of this run and its
\* groups
ResultsGroups ==
  /\ pc = "split"
  /\ \E b \in SUBSET Voxels, nvg \in 1..MaxGroups :
       /\ bamInds' = b
       /\ voxelGroups' = ArraySplit(SortedInds(b), nvg)
  /\ cv' = 0
  /\ R_inds' = <<>>
  /\ I_inds' = <<>>
  /\ pc' = "groups"
  /\ UNCHANGED <<Missingness, n_sv, Mask, estimated>>

\* blmm_results.main: one turn of for cv in range(nvg): Mask_cv, R_inds,
\* I_inds, and the estimation of the ring and of the inner volume
ResultsGroup ==
  /\ pc = "groups"
  /\ cv < Len(voxelGroups)
  /\ LET Mask_cv == KeepOnly(Mask, Range(voxelGroups[cv + 1]))
     IN  /\ R_inds' = RingOf(Mask_cv)
         /\ I_inds' = InnerOf(Mask_cv)
  /\ estimated' =
       [i \in 1..NVol |->
          estimated[i]
          + Cardinality({t \in 1..Len(R_inds') : R_inds'[t] = i - 1})
          + Cardinality({t \in 1..Len(I_inds') : I_inds'[t] = i - 1})]
  /\ cv' = cv + 1
  /\ pc' = "groups"
  /\ UNCHANGED <<Missingness, n_sv, Mask, bamInds, voxelGroups>>

\* blmm_results.main: the loop over the groups has ended
ResultsDone ==
  /\ pc = "groups"
  /\ cv = Len(voxelGroups)
  /\ pc' = "resultsdone"
  /\ UNCHANGED partVars

PartStep == ConcatMask \/ ConcatSplit \/ ResultsGroups \/ ResultsGroup \/ ResultsDone

PartNext ==
  /\ PartStep
  /\ UNCHANGED <<fisherVars, lockVars>>
  /\ UNCHANGED <<entry, inputs, method, tol, nlevels, nparams, result>>
  /\ UNCHANGED estVars

PartSpec == PartInit /\ [][PartNext]_vars

TypeOK ==
  /\ pc \in {"main", "setup", "loop", "converge", "returned", "done", "error",
            "indexerror"}
  /\ Len(lam) = Len(XtY)
  /\ Len(llhprev) = Len(XtY)
  /\ Len(llhcurr) = Len(XtY)
  /\ nit \in 0..MaxIter


\* ------------------------------------------------------------------------
\* Properties
\* ------------------------------------------------------------------------
InEstimator == pc \in {"loop", "converge", "returned", "done"}

\* the archived D_k of input voxel i, as a matrix
SavedDk(i, k) ==
  LET vec == method = "pFS"
      sl == Slice(savedparams[i], FishIndsDk(vec)[k], FishIndsDk(vec)[k + 1])
  IN  IF vec THEN vec2mat3D(sl) ELSE vech2mat3D(sl)

\* C1: the parameter vector archived for a voxel is in the row of
\* savedparams at that voxel's index in the input batch (its beta part is
\* that voxel's own estimate), the row of a voxel not yet archived holds no
\* other voxel's values, and savedparams has one row per input voxel.
C1_RowIsOwnVoxel ==
  InEstimator =>
    /\ Len(savedparams) = NVox
    /\ \A i \in 1..NVox :
         /\ converged_global[i] = 1 =>
              Slice(savedparams[i], 0, p) = initBeta3D(InputXtY[i])
         /\ converged_global[i] = 0 =>
              savedparams[i] = ZeroRow(Len(savedparams[i]))

\* a voxel was archived from a position of the active arrays that differs
\* from its input index, after an earlier compaction
C1_Witness ==
  /\ pc = "loop"
  /\ Len(paramVector) < NVox
  /\ \E i \in 1..NVox, j \in 1..Len(paramVector) :
       /\ j # i
       /\ converged_global[i] = 1
       /\ paramVector[j] = savedparams[i]

\* C2: when the estimator returns, the active set is empty and every input
\* voxel is marked converged with its row of savedparams archived.
C2_AllArchivedOnReturn ==
  pc = "returned" =>
    /\ Len(XtY) = 0
    /\ \A i \in 1..NVox :
         /\ converged_global[i] = 1
         /\ savedparams[i] # ZeroRow(Len(savedparams[i]))

\* C3: after each iteration no voxel whose likelihood change is at most tol
\* (equality included) is left in the active arrays.
C3_ConvergedAtTol ==
  (pc \in {"loop", "returned"} /\ nit >= 1) =>
    \A j \in 1..Len(XtY) : Abs(llhprev[j] - llhcurr[j]) > tol

\* C4: a row of savedparams changes only in the step that marks its voxel
\* converged; a mark is never cleared, a marked voxel's row never changes
\* again, and no marked voxel is among the active voxels.
C4_WrittenOnce ==
  [][\A i \in 1..Len(converged_global) :
        /\ converged_global[i] = 1 =>
             /\ converged_global'[i] = 1
             /\ savedparams'[i] = savedparams[i]
        /\ savedparams'[i] # savedparams[i] =>
             /\ converged_global[i] = 0
             /\ converged_global'[i] = 1
        /\ converged_global'[i] = 1 =>
             \A j \in 1..Len(XtY') : XtY'[j] # InputXtY[i]]_vars

\* an iteration ran on fewer voxels than the batch holds: the voxels
\* archived earlier kept their rows through it
C4_Witness ==
  /\ pc = "loop"
  /\ nit >= 2
  /\ Len(paramVector) >= 1
  /\ Len(paramVector) < NVox
  /\ \E i \in 1..NVox : converged_global[i] = 1

\* C5: every row of the output is [beta, sigma2, vech(D_1), ..., vech(D_r)],
\* of length p + 1 + sum_k nparams[k]*(nparams[k]+1)/2, in all four variants.
C5_OutputHalfVectorized ==
  InEstimator =>
    \A i \in 1..NVox :
      /\ Len(savedparams[i]) = p + 1 + SumTo([k \in 1..r |-> VechLen(k)], r)
      /\ converged_global[i] = 1 =>
           \A k \in 1..r :
             mat2vech3D(SavedDk(i, k)) =
               Slice(savedparams[i], IndsDk[k], IndsDk[k + 1])

\* C6: in the update step of an iteration the step size of an active voxel
\* becomes exactly half its value if that voxel's new likelihood is lower
\* than its previous one and stays as it is otherwise, whatever the
\* likelihoods of the other voxels are.
C6_StepHalving ==
  [][(pc = "loop" /\ pc' = "converge") =>
       /\ Len(lam') = Len(lam)
       /\ \A j \in 1..Len(lam) :
            IF llhcurr'[j] < llhprev'[j]
            THEN 2 * lam'[j] = lam[j]
            ELSE lam'[j] = lam[j]]_vars

\* after a likelihood evaluation one voxel's step was halved and another
\* voxel's step was not
C6_Witness ==
  /\ pc = "converge"
  /\ \E j, t \in 1..Len(lam) :
       /\ llhcurr[j] < llhprev[j]
       /\ ~(llhcurr[t] < llhprev[t])
       /\ lam[j] < lam[t]

\* C7: after the setup the number of active voxels never increases, and
\* the active voxels of a step are among those of the step before.
C7_ActiveNonIncreasing ==
  [][pc # "setup" =>
       /\ Len(XtY') <= Len(XtY)
       /\ \A t \in 1..Len(XtY') : \E j \in 1..Len(XtY) : XtY'[t] = XtY[j]]_vars

\* an iteration is about to end on an active set that already shrank
C7_Witness ==
  /\ pc = "converge"
  /\ Len(XtY) >= 1
  /\ Len(XtY) < NVox

\* C8: no selector value makes blmm_estimate.main fail on an unsupported
\* argument.
C8_NoSelectorError == entry = "main" => pc # "error"

\* C9: the tolerance the estimator receives from blmm_estimate.main is
\* inputs['tol'] when present and 1e-6 otherwise.
C9_CallerTolerance ==
  (entry = "main" /\ pc \notin {"main", "error"}) =>
    tol = (IF inputs.hasTol THEN inputs.tol ELSE DefaultTol)

\* C10: every D_k of an active voxel, the assembled D, and every archived
\* D_k are symmetric with no negative eigenvalue.
C10_AlwaysPSD ==
  InEstimator =>
    /\ \A j \in 1..Len(XtY) :
         /\ \A k \in 1..r : IsPSD(Ddict[k][j])
         /\ IsPSD(D[j])
    /\ \A i \in 1..NVox :
         converged_global[i] = 1 => \A k \in 1..r : IsPSD(SavedDk(i, k))

\* the loop condition of the batch that holds only the active voxel j
AloneContinues(j) == Abs(llhprev[j] - llhcurr[j]) > tol

\* C11: whether an active voxel undergoes another iteration, and so the row
\* returned for it and the number of iterations before it is archived, is
\* decided by that voxel's own likelihood change alone: the batch goes on
\* iterating exactly when the batch holding only that voxel would.
C11_OwnChangeDecides ==
  (pc = "loop" /\ nit >= 1) =>
    \A j \in 1..Len(XtY) : LoopCond <=> AloneContinues(j)

\* the input indices of the voxels not marked converged, in order
ActiveIdx == Where([i \in 1..NVox |-> converged_global[i] = 0], NVox)

\* e'e of input voxel i at its least-squares beta
InputEte(i) ==
  ssr3D(InputYtX[i], InputYtY[i], InputXtX[i], initBeta3D(InputXtY[i]))

C13_ZeroFactorsOLS ==
  r = 0 =>
    /\ pc # "indexerror"
    /\ InEstimator =>
         \A i \in 1..NVox :
           converged_global[i] = 1 =>
             /\ Slice(savedparams[i], 0, p) = initBeta3D(InputXtY[i])
             /\ savedparams[i][p + 1] = initSigma23D(InputEte(i), InputN[i])

\* an iteration has ended with the likelihood change of every active voxel
\* within tol
AllWithinTol ==
  /\ pc = "converge"
  /\ \A j \in 1..Len(XtY) : Abs(llhprev[j] - llhcurr[j]) <= tol

\* C14: once the likelihood change of every active voxel has fallen to
\* within tol, the loop ends after finitely many iterations and the
\* estimator returns with no active voxel left.
C14_TerminatesEmpty == AllWithinTol ~> (pc = "returned" /\ Len(XtY) = 0)

\* C15: in every output row beta is at [0, p), sigma2 at p and D_k at
\* [FishIndsDk[k], FishIndsDk[k+1]), where the offsets the running variant
\* writes at start at p + 1, are nparams[k]*(nparams[k]+1)/2 apart, end at
\* the length of the row, and are the offsets IndsDk that
\* blmm_estimate.main reads beta, sigma2 and D_k back from.
C15_RowLayout ==
  InEstimator =>
    LET F == FishIndsDk(method = "pFS")
    IN  /\ F[1] = p + 1
        /\ \A k \in 1..r : F[k + 1] - F[k] = VechLen(k)
        /\ \A i \in 1..NVox : Len(savedparams[i]) = F[r + 1]
        /\ F = IndsDk

\* the estimate of the active voxel at position j, as an output row
EstimateRow(j) ==
  beta[j] \o <<sigma2[j]>> \o
  Concat([k \in 1..r |-> mat2vech3D(Ddict[k][j])])

\* C16: whatever the variant, the row archived for a voxel is the estimate
\* the voxel converged at (its beta, its sigma2 and the D_k its likelihood
\* was evaluated at), so that variants that converge at the same estimate
\* return the same beta, sigma2 and D.
C16_SameEstimateReturned ==
  [][pc = "converge" =>
       \A j \in 1..Len(XtY) :
         converged_global'[ActiveIdx[j]] = 1 =>
           savedparams'[ActiveIdx[j]] = EstimateRow(j)]_vars

C18_InverseKindPaired ==
  (pc = "converge" /\ nit >= 1) =>
    InfoInverse(method) =
      (IF method \in {"pFS", "pSFS"} THEN "pinv" ELSE "inv")

\* C19: in SFS3D and in pSFS3D the cache D(I+Z'ZD)^-1 is re-derived after
\* every factor update: when factor k is updated, the cache holds the
\* updates of this iteration to all the factors before k.
C19_CacheRederivedPerFactor ==
  (pc = "converge" /\ method \in {"SFS", "pSFS"}) =>
    \A k \in 1..r : cacheHad[k] = k - 1

\* the per-voxel working arrays, the Ddict[k] included
WorkingArrays ==
  <<XtY, YtX, YtY, ZtY, YtZ, ete, DinvIplusZtZD, lam, llhprev, llhcurr, beta,
    sigma2, D, n, XtX, ZtX, ZtZ, XtZ>> \o Ddict

\* C20: after the compaction step of an iteration all the per-voxel working
\* arrays (the cross-products, e'e, the cache, lam, the likelihoods, beta,
\* sigma2, D, every Ddict[k], the per-voxel n and the voxel-varying design)
\* have the number of non-converged voxels as their leading dimension, and
\* position j of each holds the values of the same input voxel.
C20_CompactionAligned ==
  (pc = "loop" /\ nit >= 1) =>
    /\ \A a \in 1..Len(WorkingArrays) :
         Len(WorkingArrays[a]) = Len(ActiveIdx)
    /\ \A j \in 1..Len(ActiveIdx) :
         LET i == ActiveIdx[j]
         IN  /\ XtY[j] = InputXtY[i]
             /\ YtX[j] = InputYtX[i]
             /\ YtY[j] = InputYtY[i]
             /\ ZtY[j] = InputZtY[i]
             /\ YtZ[j] = InputYtZ[i]
             /\ ete[j] = InputEte(i)
             /\ DinvIplusZtZD[j] = DinvIplusZtZDOf(D[j], InputZtZ[i])
             /\ beta[j] = initBeta3D(InputXtY[i])
             /\ n[j] = InputN[i]
             /\ XtX[j] = InputXtX[i]
             /\ ZtX[j] = InputZtX[i]
             /\ ZtZ[j] = InputZtZ[i]
             /\ XtZ[j] = InputXtZ[i]

\* C21: after the update step of an iteration, in every variant, the
\* residual variance sigma2 of every active voxel is greater than or equal
\* to zero.
C21_Sigma2NonNegative ==
  pc = "converge" => \A j \in 1..Len(sigma2) : sigma2[j] >= 0

\* C22: the step size lam of every active voxel is in (0, 1]: it is 1 after
\* the set-up, and in every later step the lam of a voxel that stays active
\* is what it was or half of it, never more.
C22_StepOnlyHalved ==
  [][/\ (pc = "setup" /\ pc' = "loop") =>
          \A j \in 1..Len(lam') : lam'[j] = LamOne
     /\ pc \in {"loop", "converge"} =>
          \A t \in 1..Len(lam') :
            /\ lam'[t] > 0
            /\ lam'[t] <= LamOne
            /\ \E j \in 1..Len(lam) :
                 /\ XtY[j] = XtY'[t]
                 /\ lam'[t] = lam[j] \/ 2 * lam'[t] = lam[j]]_vars

\* a voxel whose step size was halved in the first iteration was moved to
\* another position by the compaction and went through a second iteration
\* in which its likelihood did not drop: its step size is still one half
C22_Witness ==
  /\ pc = "converge"
  /\ nit >= 2
  /\ \E j \in 1..Len(lam) :
       /\ 2 * lam[j] = LamOne
       /\ llhcurr[j] >= llhprev[j]
       /\ XtY[j] # InputXtY[j]

\* C23: no rollback.  When an update lowers the likelihood of a voxel, the
\* beta, sigma2 and D_k the update produced are the voxel's state after it
\* (in FS3D and pFS3D: those read from the updated parameter vector); the
\* end of the iteration leaves them as they are if the voxel stays active,
\* and archives them, not earlier ones, if the voxel is marked converged.
C23_NoRollback ==
  [][/\ (pc = "loop" /\ pc' = "converge" /\ method \in {"FS", "pFS"}) =>
          \A j \in 1..Len(llhcurr') :
            llhcurr'[j] < llhprev'[j] =>
              /\ beta'[j] = Slice(paramVector'[j], 0, p)
              /\ sigma2'[j] = paramVector'[j][p + 1]
              /\ \A k \in 1..r :
                   \E F \in {FishIndsDk(method = "pFS")} :
                     \E sl \in {Slice(paramVector'[j], F[k], F[k + 1])} :
                       \E m \in {IF method = "pFS" THEN vec2mat3D(sl)
                                                    ELSE vech2mat3D(sl)} :
                         Ddict'[k][j] = makeDnnd3D(m)
     /\ (pc = "converge" /\ pc' = "loop") =>
          \A j \in 1..Len(XtY) :
            llhcurr[j] < llhprev[j] =>
              LET i == ActiveIdx[j]
              IN  IF converged_global'[i] = 1
                  THEN /\ Slice(savedparams'[i], 0, p) = beta[j]
                       /\ savedparams'[i][p + 1] = sigma2[j]
                       /\ \A k \in 1..r :
                            \E F \in {FishIndsDk(method = "pFS")} :
                              \E sl \in {Slice(savedparams'[i], F[k],
                                                F[k + 1])} :
                                \E m \in {IF method = "pFS"
                                           THEN vec2mat3D(sl)
                                           ELSE vech2mat3D(sl)} :
                                  Ddict[k][j] = makeDnnd3D(m)
                  ELSE \E t \in 1..Len(XtY') :
                         /\ XtY'[t] = XtY[j]
                         /\ beta'[t] = beta[j]
                         /\ sigma2'[t] = sigma2[j]
                         /\ D'[t] = D[j]
                         /\ \A k \in 1..r : Ddict'[k][t] = Ddict[k][j]]_vars

\* an update has lowered the likelihood of two voxels: the change of one
\* is below tol, so that it is archived now, and the other stays active
C23_Witness ==
  /\ pc = "converge"
  /\ \E j, t \in 1..Len(XtY) :
       /\ llhcurr[j] < llhprev[j]
       /\ llhprev[j] - llhcurr[j] < tol
       /\ llhcurr[t] < llhprev[t]
       /\ llhprev[t] - llhcurr[t] >= tol

\* C24: in FS3D and pFS3D the (D_k1, D_k2) blocks computed for k2 <= k1
\* and the (sigma2, D_k) blocks are mirrored as their transposes, and the
\* assembled matrix is symmetrized before it is inverted: the matrix that
\* is inverted is symmetric.
C24_InvertedSymmetric == pc = "inverted" => IsSym(FisherInfoMat)

\* C25: in SFS3D and pSFS3D, after the loop over the factors D is the
\* block-diagonal matrix that holds Ddict[k] nlevels[k] times along its
\* diagonal: the offsets Dinds start at 0 and end at q, there is one block
\* per level of every factor, in the order of the factors, and each block
\* is as wide as its factor has parameters.
C25_TiledByDinds ==
  pc = "tiled" =>
    /\ D[1] = getDfromDict3D([k \in 1..r |-> Ddict[k][1]])
    /\ Len(Dinds) = SumTo(nlevels, r) + 1
    /\ Dinds[1] = 0
    /\ Dinds[Len(Dinds)] = q
    /\ \A c \in 1..SumTo(nlevels, r) :
         /\ Dinds[c + 1] - Dinds[c] = nparams[FactorOf(c)]
         /\ c > 1 => FactorOf(c - 1) <= FactorOf(c)

\* two factors that differ in their number of parameters, the first with
\* several levels, were written into D, and D changed
C25_Witness ==
  /\ pc = "tiled"
  /\ r = 2
  /\ nparams[1] # nparams[2]
  /\ nlevels[1] >= 2
  /\ Ddict[1][1] # Ddict[2][1]
  /\ D[1] # getDfromDict3D([k \in 1..r |-> RawD(OldScale, k)])

\* C27: before the first iteration every voxel has llhprev = -10 and
\* llhcurr = 10; in the first iteration the first computed log-likelihood
\* is compared with the 10, so that after it the step size of a voxel is
\* one half exactly when its first log-likelihood is below 10 and 1
\* otherwise; and an iteration is only ever run when tol is below 20.
C27_FirstIterationSentinel ==
  /\ (pc = "loop" /\ nit = 0) =>
       \A j \in 1..Len(XtY) :
         llhprev[j] = LlhPrevInit /\ llhcurr[j] = LlhCurrInit
  /\ (pc = "converge" /\ nit = 1) =>
       \A j \in 1..Len(XtY) :
         /\ llhprev[j] = LlhCurrInit
         /\ lam[j] = IF llhcurr[j] < LlhCurrInit THEN LamOne \div 2 ELSE LamOne
  /\ nit >= 1 => tol < LlhCurrInit - LlhPrevInit

\* the first iteration has run on two voxels, one with a first
\* log-likelihood below 10 and one with a first log-likelihood of 10
C27_Witness ==
  /\ pc = "converge"
  /\ nit = 1
  /\ \E i, j \in 1..Len(XtY) :
       /\ llhcurr[i] < LlhCurrInit
       /\ 2 * lam[i] = LamOne
       /\ llhcurr[j] = LlhCurrInit
       /\ lam[j] = LamOne

\* C26: no iteration is executed on a bundle whose voxel-varying matrices
\* differ in their leading dimension: whenever the update of an iteration
\* has run, X'Y, Y'X, Y'Y, Z'Y and Y'Z hold the same number of voxels.
C26_NoIterationOnMismatch ==
  (pc = "converge" /\ nit >= 1) =>
    /\ Len(YtX) = Len(XtY)
    /\ Len(YtY) = Len(XtY)
    /\ Len(ZtY) = Len(XtY)
    /\ Len(YtZ) = Len(XtY)

\* C28: at most one process at a time is between the creation of
\* fname.lock and its removal, so the read-append-write sections do not
\* interleave, and once every call has returned the file holds the row of
\* every process exactly once, after the row it held at the start.
C28_NoLostLine ==
  /\ Cardinality({i \in Jobs :
                    apc[i] \in {"isfile", "read", "write", "remove"}}) <= 1
  /\ (\A i \in Jobs : apc[i] = "done") =>
       /\ csvExists
       /\ \A i \in Jobs :
            Cardinality({t \in 1..Len(csvRows) : csvRows[t] = i}) = 1
       /\ \A t \in 1..Len(csvRows) :
            csvRows[t] \in Jobs \/ (t = 1 /\ csvRows[t] = 0)
       /\ Len(csvRows) \in {NJobs, NJobs + 1}

\* every call has returned on a file that existed before, and the last
\* process was the first to append
C28_Witness ==
  /\ \A i \in Jobs : apc[i] = "done"
  /\ Len(csvRows) = NJobs + 1
  /\ csvRows[1] = 0
  /\ csvRows[2] = NJobs

\* C29: the lock file is removed only by a process whose write succeeded;
\* when the read or the write of a process has raised, the lock file is
\* there and stays there, and a process that waits for the lock goes on
\* waiting: it never acquires it.
C29_LockLeftAfterRaise ==
  [][/\ (lockExists /\ ~lockExists') =>
          \E i \in Jobs :
            /\ apc[i] = "remove"
            /\ apc'[i] = "close"
            /\ csvRows = data[i]
     /\ (\E i \in Jobs : apc[i] = "raised") =>
          /\ lockExists
          /\ lockExists'
          /\ \A j \in Jobs :
               apc[j] = "lock" => (apc'[j] = "lock" /\ fileLocked'[j])]_vars

\* one process has returned, the next has raised with the lock file in
\* place, and another is still waiting for the lock
C29_Witness ==
  /\ lockExists
  /\ \E i, j, k \in Jobs :
       /\ apc[i] = "done"
       /\ apc[j] = "raised"
       /\ apc[k] = "lock"
       /\ fileLocked[k]

====
